---- MODULE Spec2Model ----
(***************************************************************************)
(* Model of packages/db/src/project/migrate/networkGenealogies.ts:         *)
(* generateNetworkGenealogiesLoad, collectArtifactNetworks, findRelation,  *)
(* queryNextPossiblyRelatedNetworks and findMatchingCandidateOnChain.      *)
(*                                                                         *)
(* The generators are modelled as one coroutine.  A state is a suspension  *)
(* point (the effect the routine has yielded and is waiting on); an action *)
(* is the driver resuming the routine with a result, run up to the next    *)
(* yield, the return or the throw.                                         *)
(***************************************************************************)
EXTENDS Integers, Sequences, FiniteSets

VARIABLES
  artifacts,            \* options.artifacts
  pc,                   \* "start" | "query" | "web3" | "load" | "done" | "error" | "collect" | "collected"
  effect,               \* the effect descriptor the routine is suspended on
  relation,             \* findRelation's `relation` argument of the running search
  network,              \* findRelation's `network` argument of the running search
  ancestor,             \* generateNetworkGenealogiesLoad: const ancestor
  descendant,           \* generateNetworkGenealogiesLoad: const descendant
  networkGenealogies,   \* generateNetworkGenealogiesLoad: const networkGenealogies
  alreadyTried,         \* findRelation: let alreadyTried
  candidates,           \* findRelation: let candidates
  idx,                  \* findMatchingCandidateOnChain: position of the for-of loop
  found,                \* ancestorAncestor / descendantDescendant
  returned,             \* the value generateNetworkGenealogiesLoad returned
  artifactNetworks,     \* argument of a direct collectArtifactNetworks call
  collectResult,        \* result of a direct collectArtifactNetworks call
  hist                  \* observations of the run (history only, never read by the routine)

vars == <<artifacts, pc, effect, relation, network, ancestor, descendant,
          networkGenealogies, alreadyTried, candidates, idx, found, returned,
          artifactNetworks, collectResult, hist>>

-----------------------------------------------------------------------------
(* Bounds of the model *)

MaxHeight == 3
MaxObs == 3
MaxArtifacts == 2
MaxLiveArtifacts == 1
NumRecorded == 2
MaxBatch == 2
MaxSortLen == 11

-----------------------------------------------------------------------------
(* Values *)

\* JavaScript's undefined.
Undefined == [undefined |-> TRUE]

\* options.network.networkId, and another chain's id.
TargetId == "target"
OtherId == "other"
ChainIds == {TargetId, OtherId}

Heights == 1..MaxHeight
NetIds == 1..MaxHeight

\* IdObject<DataModel.Network>
IdObject(id) == [id |-> id]

\* toIdObject: keeps the id only.
toIdObject(resource) == [id |-> resource.id]

\* An artifact network: { block?: Block, db?: { network: IdObject } }.
Block(h) == [height |-> h]
ValidEntries == {[block |-> Block(h), db |-> [network |-> IdObject(n)]] :
                   h \in Heights, n \in NetIds}
InvalidEntries == {[block |-> Undefined, db |-> [network |-> IdObject(1)]],
                   [block |-> Block(1), db |-> Undefined],
                   [block |-> Block(1), db |-> [network |-> Undefined]]}
Entries == ValidEntries \cup InvalidEntries

\* Precondition of generateNetworkGenealogiesLoad (doc comment): the artifact
\* networks are part of one blockchain, so the Network of an observation is
\* determined by its historic block; here the Network's id is the height.
ConsistentEntries == {e \in ValidEntries : e.db.network.id = e.block.height}
                       \cup InvalidEntries

\* The other chain's entry; its network (id 0) is referenced by no target entry.
OtherEntry == [block |-> Block(1), db |-> [network |-> IdObject(0)]]

NetworksMap(t, o) == [c \in ChainIds |-> IF c = TargetId THEN t ELSE o]

\* An artifact: { networks?: { [networkId]: ArtifactNetwork | undefined } }.
ArtifactSet ==
  {[networks |-> Undefined]}
    \cup {[networks |-> NetworksMap(t, Undefined)] : t \in {Undefined} \cup ConsistentEntries}
    \cup {[networks |-> NetworksMap(t, OtherEntry)] :
            t \in {Undefined, [block |-> Block(1), db |-> [network |-> IdObject(1)]]}}

SeqsUpTo(S, n) == UNION {[1..k -> S] : k \in 0..n}

-----------------------------------------------------------------------------
(* The networks the store already records, offered as candidates *)

Recorded == 1..NumRecorded

\* DataModel.Network { id, historicBlock { hash, height } } of recorded network k.
RecordedNetwork(k) ==
  [id |-> 10 + k, historicBlock |-> [hash |-> 100 + k, height |-> 2 * k + 1]]

RecordedIds == {RecordedNetwork(k).id : k \in Recorded}
Hashes == {0} \cup {RecordedNetwork(k).historicBlock.hash : k \in Recorded}

Range(s) == {s[i] : i \in 1..Len(s)}
Injective(s) == \A i, j \in 1..Len(s) : s[i] = s[j] => i = j

-----------------------------------------------------------------------------
(* collectArtifactNetworks and the orchestrator's filter: pure functions *)

\* Mutant of ArtifactNetworksOf: an artifact without an observation of the
\* requested chain contributes its observation of the other chain.
RECURSIVE ArtifactNetworksOf_AnyChain(_, _)
ArtifactNetworksOf_AnyChain(arts, networkId) ==
  IF arts = <<>> THEN <<>>
  ELSE LET a == Head(arts)
           rest == ArtifactNetworksOf_AnyChain(Tail(arts), networkId)
       IN IF a.networks = Undefined THEN rest
          ELSE IF a.networks[networkId] # Undefined
               THEN <<a.networks[networkId]>> \o rest
               ELSE IF a.networks[OtherId] # Undefined
                    THEN <<a.networks[OtherId]>> \o rest
                    ELSE rest

\* artifacts.filter(({networks}) => networks && networks[networkId])
\*          .map(({networks}) => networks[networkId])
RECURSIVE ArtifactNetworksOf(_, _)
ArtifactNetworksOf(arts, networkId) ==
  IF arts = <<>> THEN <<>>
  ELSE LET a == Head(arts)
           rest == ArtifactNetworksOf(Tail(arts), networkId)
       IN IF a.networks # Undefined /\ a.networks[networkId] # Undefined
          THEN <<a.networks[networkId]>> \o rest
          ELSE rest

\* ({ block, db: { network } = {} } = {}) => block && network
IsPopulated(e) ==
  /\ e # Undefined
  /\ e.block # Undefined
  /\ e.db # Undefined
  /\ e.db.network # Undefined

RECURSIVE FilterPopulated(_)
FilterPopulated(s) ==
  IF s = <<>> THEN <<>>
  ELSE IF IsPopulated(Head(s)) THEN <<Head(s)>> \o FilterPopulated(Tail(s))
       ELSE FilterPopulated(Tail(s))

\* Mutant of CompareHeight: the comparator orders by descending height.
CompareHeight_Reversed(a, b) == b.block.height - a.block.height

\* The comparator (a, b) => a.block.height - b.block.height
CompareHeight(a, b) == a.block.height - b.block.height

\* A stable sort by insertion: an element is placed after every element
\* already placed that does not compare greater.
RECURSIVE InsertSorted(_, _)
InsertSorted(sorted, e) ==
  IF sorted = <<>> THEN <<e>>
  ELSE IF CompareHeight(Head(sorted), e) > 0 THEN <<e>> \o sorted
       ELSE <<Head(sorted)>> \o InsertSorted(Tail(sorted), e)

\* The order every stable Array.prototype.sort gives.
RECURSIVE StableSort(_)
StableSort(s) ==
  IF s = <<>> THEN <<>>
  ELSE InsertSorted(StableSort(SubSeq(s, 1, Len(s) - 1)), s[Len(s)])

\* Array.prototype.sort of V8 before 7.0 (node 10 and older): ranges of up to
\* this many elements are sorted by insertion, longer ones by quicksort.
InsertionSortLimit == 10

\* Arrays of that sort, indexed from 0; a range is [from, to).
At(a, i) == a[i + 1]
Put(a, i, v) == [a EXCEPT ![i + 1] = v]

InsertionSortRange(a, from, to) ==
  SubSeq(a, 1, from) \o StableSort(SubSeq(a, from + 1, to)) \o SubSeq(a, to + 1, Len(a))

\* do { high_start--; ... } while (order > 0): the next lower index that is i
\* or holds an element not comparing greater than the pivot.
RECURSIVE ScanDown(_, _, _, _)
ScanDown(a, pivot, high, i) ==
  IF high - 1 = i THEN i
  ELSE IF CompareHeight(At(a, high - 1), pivot) > 0 THEN ScanDown(a, pivot, high - 1, i)
       ELSE high - 1

\* The partition loop of the quicksort, from index i on.
RECURSIVE Partition(_, _, _, _, _)
Partition(a, pivot, low, high, i) ==
  IF i >= high THEN [a |-> a, low |-> low, high |-> high]
  ELSE LET element == At(a, i)
           order == CompareHeight(element, pivot)
       IN IF order < 0
          THEN Partition(Put(Put(a, i, At(a, low)), low, element), pivot, low + 1, high, i + 1)
          ELSE IF order > 0
               THEN LET h == ScanDown(a, pivot, high, i)
                    IN IF h = i THEN [a |-> a, low |-> low, high |-> h]
                       ELSE LET swapped == Put(Put(a, i, At(a, h)), h, element)
                            IN IF CompareHeight(At(a, h), pivot) < 0
                               THEN Partition(Put(Put(swapped, i, At(swapped, low)),
                                                  low, At(swapped, i)),
                                              pivot, low + 1, h, i + 1)
                               ELSE Partition(swapped, pivot, low, h, i + 1)
               ELSE Partition(a, pivot, low, high, i + 1)

RECURSIVE QuickSort(_, _, _)

\* The quicksort's samples of a long range: every increment-th index from
\* from + 1 up to, not including, to - 1, each with the element it holds
\* (of which the comparator reads the block).
RECURSIVE Samples(_, _, _, _)
Samples(a, i, last, increment) ==
  IF i >= last THEN <<>>
  ELSE <<[index |-> i, block |-> At(a, i).block]>> \o Samples(a, i + increment, last, increment)

\* GetThirdIndex: the index of the median of the samples, themselves sorted by
\* the same sort with the comparator applied to the sampled elements.
GetThirdIndex(a, from, to) ==
  LET increment == 200 + ((to - from) % 16)
      t_array == Samples(a, from + 1, to - 1, increment)
      sorted == QuickSort(t_array, 0, Len(t_array))
  IN At(sorted, Len(t_array) \div 2).index

\* The quicksort on [from, to): median of the first, the last and a third
\* element as pivot (the middle one in ranges of up to 1000 elements, the one
\* of GetThirdIndex in longer ranges), partition, then both sides.
QuickSort(a, from, to) ==
  IF to - from <= InsertionSortLimit THEN InsertionSortRange(a, from, to)
  ELSE LET third == IF to - from > 1000 THEN GetThirdIndex(a, from, to)
                    ELSE from + ((to - from) \div 2)
           x0 == At(a, from)
           x1 == At(a, to - 1)
           x2 == At(a, third)
           swap01 == CompareHeight(x0, x1) > 0
           y0 == IF swap01 THEN x1 ELSE x0
           y1 == IF swap01 THEN x0 ELSE x1
           rotate == CompareHeight(y0, x2) >= 0
           swap12 == CompareHeight(y1, x2) > 0
           v0 == IF rotate THEN x2 ELSE y0
           v1 == IF rotate THEN y0 ELSE IF swap12 THEN x2 ELSE y1
           v2 == IF rotate THEN y1 ELSE IF swap12 THEN y1 ELSE x2
           ends == Put(Put(a, from, v0), to - 1, v2)
           start == Put(Put(ends, third, At(ends, from + 1)), from + 1, v1)
           p == Partition(start, v1, from + 1, to - 1, from + 2)
       IN IF to - p.high < p.low - from
          THEN QuickSort(QuickSort(p.a, p.high, to), from, p.low)
          ELSE QuickSort(QuickSort(p.a, from, p.low), p.high, to)

\* Array.prototype.sort with that comparator.  The code leaves the order of
\* elements that compare equal to the engine: a stable engine keeps their input
\* order, V8 before 7.0 gives the order of its quicksort.
SortByHeight(s) == {StableSort(s), QuickSort(s, 0, Len(s))}

\* .map(({ db: { network } }) => network)
NetworksOfEntries(s) == [i \in 1..Len(s) |-> s[i].db.network]

\* networks.slice(1).reduce(...): one input per step, from the accumulator's
\* ancestor to the element; the element becomes the accumulator's ancestor.
RECURSIVE ReducePairs(_, _)
ReducePairs(acc, rest) ==
  IF rest = <<>> THEN acc
  ELSE ReducePairs(
         [ancestor |-> Head(rest),
          networkGenealogies |->
            Append(acc.networkGenealogies,
                   [ancestor |-> acc.ancestor, descendant |-> Head(rest)])],
         Tail(rest))

\* What the collector returns once its entries are sorted.
CollectSorted(sorted) ==
  LET networks == NetworksOfEntries(sorted)
  IN IF Len(networks) < 1 THEN Undefined
     ELSE [ancestor |-> networks[1],
           descendant |-> networks[Len(networks)],
           networkGenealogies |->
             ReducePairs([ancestor |-> networks[1], networkGenealogies |-> <<>>],
                         Tail(networks)).networkGenealogies]

\* The results collectArtifactNetworks can return for a list: one for every
\* outcome of the sort.
collectArtifactNetworks(list) ==
  {CollectSorted(sorted) : sorted \in SortByHeight(FilterPopulated(list))}

-----------------------------------------------------------------------------
(* Effect descriptors and their results *)

NoEffect == [type |-> "none"]

\* relation === "ancestor" ? "possibleAncestors" : "possibleDescendants"
QueryName(rel) == IF rel = "ancestor" THEN "possibleAncestors" ELSE "possibleDescendants"

\* resources.get("networks", network.id, gql`... ${query}(alreadyTried: ...) ...`)
QueryEffect(rel, net, tried) ==
  [type |-> "get", collection |-> "networks", id |-> net.id,
   query |-> QueryName(rel), alreadyTried |-> tried]

\* { type: "web3", method: "eth_getBlockByNumber", params: [height, false] }
Web3Effect(candidate) ==
  [type |-> "web3", method |-> "eth_getBlockByNumber",
   params |-> <<candidate.historicBlock.height, FALSE>>]

\* resources.load("networkGenealogies", networkGenealogies)
LoadEffect(inputs) ==
  [type |-> "load", collection |-> "networkGenealogies", inputs |-> inputs]

\* Mutant of Confirms: any block at the height confirms.
Confirms_AnyBlock(response, candidate) ==
  /\ response # Undefined
  /\ response.result # Undefined

\* response && response.result && response.result.hash === candidate.historicBlock.hash
Confirms(response, candidate) ==
  /\ response # Undefined
  /\ response.result # Undefined
  /\ response.result.hash = candidate.historicBlock.hash

\* Mutant of CandidateAt: the batch is walked from its end.
CandidateAt_Reversed(batch, i) == batch[Len(batch) + 1 - i]

\* for (const candidate of candidates): the candidate of the i-th iteration.
CandidateAt(batch, i) == batch[i]

\* Mutant of HasNext: the loop stops one candidate early.
HasNext_StopsEarly(batch, i) == i < Len(batch) - 1

\* for (const candidate of candidates): another iteration follows the i-th.
HasNext(batch, i) == i < Len(batch)

\* Mutant of LookupsYielded: the lookups of the rest of the batch are handed to
\* the driver together.
LookupsYielded_AllAtOnce(batch, i) == [j \in 1..(Len(batch) + 1 - i) |-> Web3Effect(batch[i + j - 1])]

\* The descriptors the i-th iteration hands to the driver: one yield, one lookup.
LookupsYielded(batch, i) == <<Web3Effect(CandidateAt(batch, i))>>

\* Mutant of LoopAgain: the loop test also passes for an empty batch.
LoopAgain_NonNegative(batch) == Len(batch) >= 0

\* do { ... } while (candidates.length > 0)
LoopAgain(batch) == Len(batch) > 0

\* Mutant of NextAlreadyTried: only the latest batch is remembered.
NextAlreadyTried_BatchOnly(result) == {result.networks[i].id : i \in 1..Len(result.networks)}

\* Mutant of NextAlreadyTried: the result's alreadyTried is not threaded.
NextAlreadyTried_Dropped(result) == {}

\* The alreadyTried findRelation takes from a query's result for the next query.
NextAlreadyTried(result) == result.alreadyTried

\* Mutant of AncestorLink: the two ends are swapped.
AncestorLink_Swapped(ancestorAncestor, anc) ==
  [ancestor |-> anc, descendant |-> ancestorAncestor]

\* networkGenealogies.push({ ancestor: ancestorAncestor, descendant: ancestor })
AncestorLink(ancestorAncestor, anc) ==
  [ancestor |-> ancestorAncestor, descendant |-> anc]

\* networkGenealogies.push({ ancestor: descendant, descendant: descendantDescendant })
DescendantLink(desc, descendantDescendant) ==
  [ancestor |-> desc, descendant |-> descendantDescendant]

\* The store's answers to a relation query: a batch of recorded networks none of
\* which is in the exclusion set sent, and the exclusion set grown by the batch.
StoreResults(rel, net, tried) ==
  {[networks |-> [i \in 1..Len(b) |-> RecordedNetwork(b[i])],
    alreadyTried |-> tried \cup {RecordedNetwork(b[i]).id : i \in 1..Len(b)}] :
     b \in {s \in SeqsUpTo(Recorded, MaxBatch) :
              Injective(s) /\ \A i \in 1..Len(s) : RecordedNetwork(s[i]).id \notin tried}}

\* The chain's answers to eth_getBlockByNumber: no response, a response without
\* a block (the height is unknown to the chain), or a block with some hash.
Web3Responses ==
  {Undefined, [result |-> Undefined]} \cup {[result |-> [hash |-> h]] : h \in Hashes}

-----------------------------------------------------------------------------
(* The order of generateNetworkGenealogiesLoad's steps *)

\* Mutant of AfterSearch: the load follows the first search.
AfterSearch_LoadFirst(rel) == "load"

\* What generateNetworkGenealogiesLoad does after the search for `rel` has
\* returned: the descendant search after the ancestor search, then the load.
AfterSearch(rel) == IF rel = "ancestor" THEN "descendant" ELSE "load"

\* Mutant of AnchorOf: both searches are anchored at the collected ancestor.
AnchorOf_AlwaysAncestor(rel, anc, desc) == anc

\* The anchor findRelation is called with.
AnchorOf(rel, anc, desc) == IF rel = "ancestor" THEN anc ELSE desc

-----------------------------------------------------------------------------
(* History of a run *)

NoSearch == [ancestor |-> Undefined, descendant |-> Undefined]

\* History counters saturate (a run of the routine never reaches the cap).
MaxCount == NumRecorded + 2
Bump(n) == IF n < MaxCount THEN n + 1 ELSE n

InitHist ==
  [lookedUp |-> <<>>,        \* candidates looked up on the chain, current batch
   sent |-> {},              \* exclusion set sent with the latest query of the search
   queries |-> 0,            \* store queries issued by the running search
   lookups |-> 0,            \* chain lookups issued by the running search
   batch |-> <<>>,           \* the batch the store returned latest
   emptyBatchOf |-> "none",  \* the search whose store query was answered latest,
                             \*   if the answer was an empty batch
   ended |-> {},             \* relations whose search has returned
   confirmation |-> NoSearch,\* per search: the lookup and response that confirmed
   loads |-> 0,              \* load effects issued
   storeTried |-> {},        \* the alreadyTried the store returned latest
   offered |-> 0,            \* candidates the store offered to the running search
   absentAnswer |-> FALSE,   \* the latest step consumed a lookup's answer without a block
   queryFailed |-> FALSE,    \* a store query failed
   loadFailed |-> FALSE,     \* the load failed
   lookupFailed |-> FALSE,   \* a chain lookup failed
   inFlight |-> 0,           \* effects handed to the driver and not yet answered
   collected |-> Undefined]  \* what collectArtifactNetworks returned to the run

-----------------------------------------------------------------------------
(* The coroutine *)

\* findRelation(rel, anchor) up to its first yield: alreadyTried = [], then the
\* query of queryNextPossiblyRelatedNetworks.
BeginSearch(rel, anchor, inputs, fnd, h) ==
  /\ pc' = "query"
  /\ relation' = rel
  /\ network' = anchor
  /\ alreadyTried' = {}
  /\ candidates' = <<>>
  /\ idx' = 0
  /\ effect' = QueryEffect(rel, anchor, {})
  /\ networkGenealogies' = inputs
  /\ found' = fnd
  /\ returned' = Undefined
  /\ hist' = [h EXCEPT !.lookedUp = <<>>, !.sent = {}, !.queries = 1,
                       !.lookups = 0, !.batch = <<>>, !.storeTried = {},
                       !.offered = 0, !.inFlight = 1]

\* The running findRelation returns `result` to generateNetworkGenealogiesLoad,
\* which pushes the link for it and goes on to the next search or to the load.
EndSearch(result, h) ==
  LET inputs == IF result = Undefined THEN networkGenealogies
                ELSE IF relation = "ancestor"
                     THEN Append(networkGenealogies, AncestorLink(result, ancestor))
                     ELSE Append(networkGenealogies, DescendantLink(descendant, result))
      fnd == [found EXCEPT ![relation] = result]
      h2 == [h EXCEPT !.ended = @ \cup {relation}]
      next == AfterSearch(relation)
  IN IF next = "load"
     THEN /\ pc' = "load"
          /\ effect' = LoadEffect(inputs)
          /\ networkGenealogies' = inputs
          /\ found' = fnd
          /\ relation' = "none"
          /\ network' = Undefined
          /\ hist' = [h2 EXCEPT !.loads = @ + 1, !.inFlight = 1]
          /\ UNCHANGED <<alreadyTried, candidates, idx, returned>>
     ELSE BeginSearch(next, AnchorOf(next, ancestor, descendant), inputs, fnd, h2)

\* The routine throws: generateNetworkGenealogiesLoad ends with an error.
Throw(h) ==
  /\ pc' = "error"
  /\ effect' = NoEffect
  /\ hist' = [h EXCEPT !.inFlight = 0]
  /\ UNCHANGED <<relation, network, networkGenealogies, alreadyTried, candidates,
                 idx, found, returned>>

\* generateNetworkGenealogiesLoad from its call to its first yield.  The result
\* of collectArtifactNetworks is destructured at once: undefined throws.
Start ==
  /\ pc = "start"
  /\ \E collected \in collectArtifactNetworks(ArtifactNetworksOf(artifacts, TargetId)) :
     LET h == [hist EXCEPT !.collected = collected]
     IN IF collected = Undefined
        THEN /\ Throw(h)
             /\ UNCHANGED <<ancestor, descendant>>
        ELSE /\ ancestor' = collected.ancestor
             /\ descendant' = collected.descendant
             /\ BeginSearch("ancestor",
                            AnchorOf("ancestor", collected.ancestor, collected.descendant),
                            collected.networkGenealogies, NoSearch, h)
  /\ UNCHANGED <<artifacts, artifactNetworks, collectResult>>

\* findMatchingCandidateOnChain(batch) from its call: the lookup of the first
\* candidate, or undefined for an empty batch; then findRelation's loop test.
AfterBatch(batch, tried, h) ==
  IF Len(batch) > 0
  THEN /\ pc' = "web3"
       /\ idx' = 1
       /\ effect' = Web3Effect(CandidateAt(batch, 1))
       /\ candidates' = batch
       /\ alreadyTried' = tried
       /\ hist' = [h EXCEPT !.lookedUp = <<CandidateAt(batch, 1)>>,
                            !.lookups = Bump(@),
                            !.inFlight = Len(LookupsYielded(batch, 1))]
       /\ UNCHANGED <<relation, network, networkGenealogies, found, returned>>
  ELSE IF LoopAgain(batch)
       THEN /\ pc' = "query"
            /\ effect' = QueryEffect(relation, network, tried)
            /\ candidates' = batch
            /\ alreadyTried' = tried
            /\ idx' = 0
            /\ hist' = [h EXCEPT !.lookedUp = <<>>, !.sent = tried,
                                 !.queries = Bump(@), !.inFlight = 1]
            /\ UNCHANGED <<relation, network, networkGenealogies, found, returned>>
       ELSE EndSearch(Undefined, h)

\* The driver resumes the store query with a result.
QueryResult ==
  /\ pc = "query"
  /\ \E result \in StoreResults(relation, network, effect.alreadyTried) :
       AfterBatch(result.networks, NextAlreadyTried(result),
                  [hist EXCEPT !.batch = result.networks,
                               !.emptyBatchOf = IF Len(result.networks) = 0
                                                THEN relation ELSE "none",
                               !.storeTried = result.alreadyTried,
                               !.offered = IF @ + Len(result.networks) < MaxCount
                                           THEN @ + Len(result.networks) ELSE MaxCount,
                               !.absentAnswer = FALSE,
                               !.inFlight = 0])
  /\ UNCHANGED <<artifacts, ancestor, descendant, artifactNetworks, collectResult>>

\* Mutant of QueryFailure: the failed query counts as an empty batch.
QueryFailure_AsEmptyBatch ==
  /\ pc = "query"
  /\ EndSearch(Undefined, [hist EXCEPT !.queryFailed = TRUE, !.inFlight = 0])
  /\ UNCHANGED <<artifacts, ancestor, descendant, artifactNetworks, collectResult>>

\* The store query fails: the catch logs the error, `result` stays undefined
\* and `result.networks` throws.
QueryFailure ==
  /\ pc = "query"
  /\ Throw([hist EXCEPT !.queryFailed = TRUE, !.absentAnswer = FALSE])
  /\ UNCHANGED <<artifacts, ancestor, descendant, artifactNetworks, collectResult>>

\* The driver resumes the chain lookup of candidates[idx] with a response.
Web3Result ==
  /\ pc = "web3"
  /\ \E response \in Web3Responses :
       LET h == [hist EXCEPT
                   !.absentAnswer = (response = Undefined \/ response.result = Undefined),
                   !.inFlight = 0]
       IN
       IF Confirms(response, CandidateAt(candidates, idx))
       THEN EndSearch(toIdObject(CandidateAt(candidates, idx)),
                      [h EXCEPT !.confirmation[relation] =
                         [effect |-> effect, response |-> response,
                          inBatch |-> toIdObject(CandidateAt(candidates, idx)) \in
                                        {toIdObject(c) : c \in Range(hist.batch)}]])
       ELSE IF HasNext(candidates, idx)
            THEN /\ idx' = idx + 1
                 /\ effect' = Web3Effect(CandidateAt(candidates, idx + 1))
                 /\ hist' = [h EXCEPT
                               !.lookedUp = Append(@, CandidateAt(candidates, idx + 1)),
                               !.lookups = Bump(@),
                               !.inFlight = Len(LookupsYielded(candidates, idx + 1))]
                 /\ UNCHANGED <<pc, relation, network, networkGenealogies,
                                alreadyTried, candidates, found, returned>>
            ELSE IF LoopAgain(candidates)
                 THEN /\ pc' = "query"
                      /\ effect' = QueryEffect(relation, network, alreadyTried)
                      /\ idx' = 0
                      /\ hist' = [h EXCEPT !.lookedUp = <<>>, !.sent = alreadyTried,
                                           !.queries = Bump(@), !.inFlight = 1]
                      /\ UNCHANGED <<relation, network, networkGenealogies,
                                     alreadyTried, candidates, found, returned>>
                 ELSE EndSearch(Undefined, h)
  /\ UNCHANGED <<artifacts, ancestor, descendant, artifactNetworks, collectResult>>

\* The chain lookup fails: the driver raises the failure at the yield, and
\* neither findMatchingCandidateOnChain nor findRelation nor the orchestrator
\* catches it.
Web3Failure ==
  /\ pc = "web3"
  /\ Throw([hist EXCEPT !.lookupFailed = TRUE, !.absentAnswer = FALSE])
  /\ UNCHANGED <<artifacts, ancestor, descendant, artifactNetworks, collectResult>>

\* The driver resumes the load with the ids the store assigned, one per input.
LoadResult ==
  /\ pc = "load"
  /\ pc' = "done"
  /\ effect' = NoEffect
  /\ returned' = [i \in 1..Len(effect.inputs) |-> IdObject(i)]
  /\ hist' = [hist EXCEPT !.inFlight = 0]
  /\ UNCHANGED <<artifacts, relation, network, ancestor, descendant,
                 networkGenealogies, alreadyTried, candidates, idx, found,
                 artifactNetworks, collectResult>>

\* Mutant of LoadFailure: the failed load is issued again.
LoadFailure_Retry ==
  /\ pc = "load"
  /\ pc' = "load"
  /\ effect' = effect
  /\ hist' = [hist EXCEPT !.loadFailed = TRUE, !.loads = Bump(@)]
  /\ UNCHANGED <<artifacts, relation, network, ancestor, descendant,
                 networkGenealogies, alreadyTried, candidates, idx, found,
                 returned, artifactNetworks, collectResult>>

\* The load fails: nothing catches it.
LoadFailure ==
  /\ pc = "load"
  /\ Throw([hist EXCEPT !.loadFailed = TRUE])
  /\ UNCHANGED <<artifacts, ancestor, descendant, artifactNetworks, collectResult>>

Init ==
  /\ artifacts \in SeqsUpTo(ArtifactSet, MaxArtifacts)
  /\ pc = "start"
  /\ effect = NoEffect
  /\ relation = "none"
  /\ network = Undefined
  /\ ancestor = Undefined
  /\ descendant = Undefined
  /\ networkGenealogies = <<>>
  /\ alreadyTried = {}
  /\ candidates = <<>>
  /\ idx = 0
  /\ found = NoSearch
  /\ returned = Undefined
  /\ artifactNetworks = <<>>
  /\ collectResult = Undefined
  /\ hist = InitHist

Next ==
  \/ Start
  \/ QueryResult
  \/ QueryFailure
  \/ Web3Result
  \/ Web3Failure
  \/ LoadResult
  \/ LoadFailure

Spec == Init /\ [][Next]_vars

\* The runs over the shorter artifact lists, the driver resuming every effect
\* it was handed.
InitLive == Init /\ Len(artifacts) <= MaxLiveArtifacts

LiveSpec == InitLive /\ [][Next]_vars /\ WF_vars(Next)

-----------------------------------------------------------------------------
(* collectArtifactNetworks called on its own *)

InitCollect ==
  /\ artifactNetworks \in SeqsUpTo({Undefined} \cup Entries, MaxObs)
  /\ pc = "collect"
  /\ artifacts = <<>>
  /\ effect = NoEffect
  /\ relation = "none"
  /\ network = Undefined
  /\ ancestor = Undefined
  /\ descendant = Undefined
  /\ networkGenealogies = <<>>
  /\ alreadyTried = {}
  /\ candidates = <<>>
  /\ idx = 0
  /\ found = NoSearch
  /\ returned = Undefined
  /\ collectResult = Undefined
  /\ hist = InitHist

Collect ==
  /\ pc = "collect"
  /\ pc' = "collected"
  /\ collectResult' \in collectArtifactNetworks(artifactNetworks)
  /\ UNCHANGED <<artifacts, effect, relation, network, ancestor, descendant,
                 networkGenealogies, alreadyTried, candidates, idx, found,
                 returned, artifactNetworks, hist>>

NextCollect == Collect

SpecCollect == InitCollect /\ [][NextCollect]_vars

\* collectArtifactNetworks called on longer lists: the i-th observation is of
\* network i, at one of two heights, so that observations tie.
LongLists ==
  UNION {{[i \in 1..n |-> [block |-> Block(h[i]), db |-> [network |-> IdObject(i)]]] :
            h \in [1..n -> {1, 2}]} : n \in 0..MaxSortLen}

InitSort ==
  /\ artifactNetworks \in LongLists
  /\ pc = "collect"
  /\ artifacts = <<>>
  /\ effect = NoEffect
  /\ relation = "none"
  /\ network = Undefined
  /\ ancestor = Undefined
  /\ descendant = Undefined
  /\ networkGenealogies = <<>>
  /\ alreadyTried = {}
  /\ candidates = <<>>
  /\ idx = 0
  /\ found = NoSearch
  /\ returned = Undefined
  /\ collectResult = Undefined
  /\ hist = InitHist

SpecSort == InitSort /\ [][NextCollect]_vars

-----------------------------------------------------------------------------
(* Vocabulary of the properties *)

\* The recorded network with a given id object.
NetworkOfId(idObject) ==
  CHOOSE n \in {RecordedNetwork(k) : k \in Recorded} : n.id = idObject.id

\* Indices of the observations that carry both a block and a network reference.
ValidIndices(list) ==
  {i \in 1..Len(list) :
     /\ list[i] # Undefined
     /\ list[i].block # Undefined
     /\ list[i].db # Undefined
     /\ list[i].db.network # Undefined}

ObservedNetworks(list) == {list[i].db.network : i \in ValidIndices(list)}

\* One chain, one history: observations at one height are of one network, and
\* one network is observed at one height.
ConsistentHistory(list) ==
  \A i, j \in ValidIndices(list) :
    (list[i].block.height = list[j].block.height) <=> (list[i].db.network = list[j].db.network)

\* The height at which a network was observed (under ConsistentHistory).
ObservedHeight(list, net) ==
  CHOOSE h \in Heights :
    \E i \in ValidIndices(list) : list[i].db.network = net /\ list[i].block.height = h

\* The observations of the target chain in the run's artifacts.
TargetObservations ==
  [i \in 1..Len(artifacts) |->
     IF artifacts[i].networks = Undefined THEN Undefined
     ELSE artifacts[i].networks[TargetId]]

SearchRunning == pc \in {"query", "web3"}

-----------------------------------------------------------------------------
(* C1 *)

\* C1: for any list of observations of one chain, the collector's links are the
\* consecutive pairs of the height-sorted networks: n - 1 links for n distinct
\* networks, link k ending where link k + 1 starts, no observed network strictly
\* between the two ends of a link, and every link strictly ascending in height.
C1_LinksAreStrictAdjacentPairs ==
  (pc = "collected" /\ collectResult # Undefined /\ ConsistentHistory(artifactNetworks))
    => LET list == artifactNetworks
           links == collectResult.networkGenealogies
           nets == ObservedNetworks(list)
           H(net) == ObservedHeight(list, net)
       IN /\ Len(links) = Cardinality(nets) - 1
          /\ \A k \in 1..Len(links) :
               /\ links[k].ancestor \in nets
               /\ links[k].descendant \in nets
               /\ H(links[k].ancestor) < H(links[k].descendant)
               /\ ~ \E m \in nets :
                      H(links[k].ancestor) < H(m) /\ H(m) < H(links[k].descendant)
               /\ k < Len(links) => links[k].descendant = links[k + 1].ancestor

-----------------------------------------------------------------------------
(* C3 *)

\* C3: when no observation of the target chain has both a block and a network
\* reference, the collector signals "no networks" and the run completes as a
\* no-op: no effect is issued and the run does not end in an error.
C3_NoNetworksIsNoOp ==
  (pc # "start" /\ pc # "collect" /\ ValidIndices(TargetObservations) = {})
    => /\ hist.collected = Undefined
       /\ effect = NoEffect
       /\ hist.loads = 0
       /\ hist.queries = 0
       /\ pc = "done"

-----------------------------------------------------------------------------
(* C2 *)

\* C2: within one batch the chain lookups are issued in the order of the batch,
\* one after another (the lookups so far are a prefix of the batch, the pending
\* lookup is the one of the prefix's last candidate), and the search returns the
\* candidate looked up last: every candidate before it was looked up, none
\* after it is.
C2_SerialShortCircuit ==
  /\ [](pc = "web3" =>
          /\ Len(hist.lookedUp) >= 1
          /\ Len(hist.lookedUp) <= Len(hist.batch)
          /\ hist.lookedUp = SubSeq(hist.batch, 1, Len(hist.lookedUp))
          /\ effect = [type |-> "web3", method |-> "eth_getBlockByNumber",
                       params |-> <<hist.lookedUp[Len(hist.lookedUp)].historicBlock.height,
                                    FALSE>>])
  /\ [][(pc = "web3" /\ pc' = "web3")
          => /\ hist'.batch = hist.batch
             /\ hist'.lookedUp = SubSeq(hist.batch, 1, Len(hist.lookedUp) + 1)]_vars
  /\ [][(pc = "web3" /\ relation \in hist'.ended /\ found'[relation] # Undefined)
          => /\ found'[relation].id = hist.lookedUp[Len(hist.lookedUp)].id
             /\ pc' # "web3"]_vars

\* C2 witness: a batch of two whose second candidate (the lower one) was
\* confirmed after the first was looked up.
C2_Witness ==
  /\ pc = "load"
  /\ Len(hist.batch) = 2
  /\ hist.lookedUp = hist.batch
  /\ hist.batch[1].historicBlock.height > hist.batch[2].historicBlock.height
  /\ found.descendant = [id |-> hist.batch[2].id]

-----------------------------------------------------------------------------
(* C4 *)

\* C4: every findRelation search ends (with a candidate, with "no relation
\* found", or with the run aborted by a failed effect) once the driver resumes
\* every effect, the store offering no excluded identifier and excluding every
\* identifier it offered.
C4_SearchTerminates ==
  \A rel \in {"ancestor", "descendant"} :
    (SearchRunning /\ relation = rel) ~> (rel \in hist.ended \/ pc = "error")

\* C4 witness: a search that ended with no relation after every recorded
\* network was offered and none was confirmed.
C4_Witness ==
  /\ pc = "load"
  /\ found.descendant = Undefined
  /\ hist.sent = RecordedIds
  /\ hist.lookups = NumRecorded
  /\ hist.queries > 1

-----------------------------------------------------------------------------
(* C5 *)

\* C5: within one search the exclusion set sent with a store query contains the
\* set sent with the query before it, and no candidate looked up on the chain
\* is in the set that was sent with the query of its batch.
C5_AlreadyTriedNeverShrinks ==
  /\ [][(SearchRunning /\ pc' = "query" /\ relation' = relation /\ hist'.ended = hist.ended)
          => hist.sent \subseteq effect'.alreadyTried]_vars
  /\ [](pc = "query" => effect.alreadyTried = hist.sent)
  /\ [](pc = "web3" => \A i \in 1..Len(hist.lookedUp) : hist.lookedUp[i].id \notin hist.sent)

\* C5 witness: the third query of a search, sent with two identifiers excluded.
C5_Witness ==
  /\ pc = "query"
  /\ hist.queries = 3
  /\ Cardinality(effect.alreadyTried) = 2

-----------------------------------------------------------------------------
(* C7 *)

\* C7: the inputs of the load are the collector's links, then the link from the
\* found ancestor to the collected ancestor iff the ancestor search found one,
\* then the link from the collected descendant to the found descendant iff the
\* descendant search found one.
C7_PersistedLinks ==
  pc = "load" =>
    /\ effect.type = "load"
    /\ \A rel \in {"ancestor", "descendant"} :
         (found[rel] # Undefined) <=> (hist.confirmation[rel] # Undefined)
    /\ effect.inputs =
         hist.collected.networkGenealogies
           \o (IF found.ancestor # Undefined
               THEN <<[ancestor |-> found.ancestor,
                       descendant |-> hist.collected.ancestor]>>
               ELSE <<>>)
           \o (IF found.descendant # Undefined
               THEN <<[ancestor |-> hist.collected.descendant,
                       descendant |-> found.descendant]>>
               ELSE <<>>)

\* C7 witness: a load after both searches found a relation, the collector
\* having built a link.
C7_Witness ==
  /\ pc = "load"
  /\ found.ancestor # Undefined
  /\ found.descendant # Undefined
  /\ Len(hist.collected.networkGenealogies) = 1
  /\ Len(effect.inputs) = 3

-----------------------------------------------------------------------------
(* C8 *)

\* C8: the effects of a run are those of the ancestor search, then those of the
\* descendant search, then the load; the load is issued once, only after both
\* searches have returned, and is the last effect; a run that completes has
\* issued exactly one load.
C8_EffectOrder ==
  /\ [](/\ hist.loads <= 1
        /\ (pc = "load") <=> (effect.type = "load")
        /\ pc = "load" => (hist.loads = 1 /\ hist.ended = {"ancestor", "descendant"})
        /\ pc = "done" => (hist.loads = 1 /\ hist.ended = {"ancestor", "descendant"})
        /\ SearchRunning =>
             /\ hist.loads = 0
             /\ effect.type = IF pc = "query" THEN "get" ELSE "web3"
             /\ hist.ended = IF relation = "ancestor" THEN {} ELSE {"ancestor"}
             /\ relation \in {"ancestor", "descendant"}
        /\ pc = "query" => effect.query = QueryName(relation))
  /\ [][pc = "load" => (pc' \in {"done", "error"} /\ effect' = NoEffect)]_vars
  /\ [][relation = "descendant" => relation' \in {"descendant", "none"}]_vars
  /\ [][hist.ended \subseteq hist'.ended]_vars

\* C8 witness: a completed run whose ancestor search found a relation and whose
\* descendant search looked candidates up and found none.
C8_Witness ==
  /\ pc = "done"
  /\ hist.loads = 1
  /\ found.ancestor # Undefined
  /\ found.descendant = Undefined
  /\ hist.lookups >= 1

-----------------------------------------------------------------------------
(* C9 *)

\* C9: a network returned by findRelation is a candidate of the latest batch,
\* and the lookup that confirmed it asked for the block at the candidate's
\* recorded height, without transactions, and was answered with a block whose
\* hash is the candidate's recorded hash.
C9_ReturnedIsConfirmed ==
  \A rel \in {"ancestor", "descendant"} :
    found[rel] # Undefined =>
      LET c == hist.confirmation[rel]
          n == NetworkOfId(found[rel])
      IN /\ found[rel].id \in RecordedIds
         /\ c # Undefined
         /\ c.inBatch
         /\ c.effect = [type |-> "web3", method |-> "eth_getBlockByNumber",
                        params |-> <<n.historicBlock.height, FALSE>>]
         /\ c.response # Undefined
         /\ c.response.result # Undefined
         /\ c.response.result.hash = n.historicBlock.hash

\* C9 witness: the ancestor search returned a confirmed candidate and the
\* descendant search is running.
C9_Witness ==
  /\ SearchRunning
  /\ relation = "descendant"
  /\ found.ancestor # Undefined
  /\ hist.confirmation.ancestor.response.result.hash
       = NetworkOfId(found.ancestor).historicBlock.hash

-----------------------------------------------------------------------------
(* C10 *)

\* C10: a store query answered with an empty batch ends its search with "no
\* relation found", not with an error: the step issues no chain lookup and no
\* further query of that search; when it was the search's first query, the
\* search issued one query and no lookup.
C10_EmptyBatchEndsSearch ==
  [][(pc = "query" /\ hist'.emptyBatchOf = relation /\ hist.emptyBatchOf # relation)
       => /\ pc' # "error"
          /\ relation \in hist'.ended
          /\ found'[relation] = Undefined
          /\ pc' # "web3"
          /\ pc' = "query" => relation' # relation
          /\ effect.alreadyTried = {} => (hist.queries = 1 /\ hist.lookups = 0)
          /\ pc' = "load" => (hist'.queries = hist.queries /\ hist'.lookups = hist.lookups)]_vars

\* C10 witness: the descendant search ended on an empty first batch.
C10_Witness ==
  /\ pc = "load"
  /\ hist.emptyBatchOf = "descendant"
  /\ hist.queries = 1
  /\ hist.lookups = 0
  /\ found.descendant = Undefined

-----------------------------------------------------------------------------
(* C6 *)

\* The recorded height of a network: an observed network's id is its height.
HeightOfNetwork(idObject) ==
  IF idObject.id \in RecordedIds THEN NetworkOfId(idObject).historicBlock.height
  ELSE idObject.id

\* C6: no link submitted by the load is a self-pair, and every link's ancestor
\* is at most as high as its descendant.
C6_NoSelfPairs ==
  pc = "load" =>
    \A k \in 1..Len(effect.inputs) :
      /\ effect.inputs[k].ancestor # effect.inputs[k].descendant
      /\ HeightOfNetwork(effect.inputs[k].ancestor)
           <= HeightOfNetwork(effect.inputs[k].descendant)

-----------------------------------------------------------------------------
(* C11 *)

\* The identifiers of a batch's candidates.
IdsOf(batch) == {batch[i].id : i \in 1..Len(batch)}

\* C11: when the lookups of a non-empty batch are all answered without a
\* confirmation, the step that consumes the last answer issues a store query of the same search (same
\* anchor, same direction) whose exclusion set is exactly the alreadyTried set
\* the store returned with that batch (a search leaves the lookups of a batch
\* in no other way than by a confirmation); the first store query of a search
\* carries the empty exclusion set.
C11_RequeryVerbatim ==
  /\ [][(pc = "web3" /\ ~hist'.lookupFailed /\ hist'.ended = hist.ended /\ pc' # "web3")
          => /\ Len(hist.batch) > 0
             /\ Len(hist.lookedUp) = Len(hist.batch)
             /\ pc' = "query"
             /\ relation' = relation
             /\ network' = network
             /\ effect' = [type |-> "get", collection |-> "networks",
                           id |-> network.id, query |-> QueryName(relation),
                           alreadyTried |-> hist.storeTried]
             /\ IdsOf(hist.batch) \subseteq effect'.alreadyTried
             /\ hist'.queries = Bump(hist.queries)]_vars
  /\ [][(pc = "web3" /\ hist'.ended # hist.ended)
          => (found'[relation] # Undefined /\ hist'.confirmation[relation] # Undefined)]_vars
  /\ [][(pc' = "query" /\ (pc \notin {"query", "web3"} \/ hist'.ended # hist.ended))
          => (effect'.alreadyTried = {} /\ hist'.queries = 1)]_vars
  /\ [](pc = "query" /\ hist.queries = 1 => effect.alreadyTried = {})

\* C11 witness: the second query of the ancestor search, sent after a batch of
\* two candidates none of which was confirmed, excluding exactly the two
\* identifiers the store returned with that batch.
C11_Witness ==
  /\ pc = "query"
  /\ relation = "ancestor"
  /\ hist.queries = 2
  /\ Len(hist.batch) = 2
  /\ hist.lookups = 2
  /\ effect.alreadyTried = hist.storeTried
  /\ effect.alreadyTried = IdsOf(hist.batch)

-----------------------------------------------------------------------------
(* C12 *)

\* C12: for a list with at least one valid observation the collector returns a
\* result whose ancestor is the network of an observation of minimal height and
\* whose descendant is the network of an observation of maximal height; with
\* exactly one valid observation the two are the same network and there is no
\* link.
C12_CollectedEnds ==
  LET list == artifactNetworks
      valid == ValidIndices(list)
  IN (pc = "collected" /\ valid # {})
       => /\ collectResult # Undefined
          /\ \E i \in valid :
               /\ collectResult.ancestor = list[i].db.network
               /\ \A j \in valid : list[i].block.height <= list[j].block.height
          /\ \E i \in valid :
               /\ collectResult.descendant = list[i].db.network
               /\ \A j \in valid : list[j].block.height <= list[i].block.height
          /\ Cardinality(valid) = 1
               => /\ collectResult.ancestor = collectResult.descendant
                  /\ collectResult.networkGenealogies = <<>>
          /\ Cardinality(valid) > 1
               => /\ collectResult.ancestor = collectResult.networkGenealogies[1].ancestor
                  /\ collectResult.descendant =
                       collectResult.networkGenealogies[Cardinality(valid) - 1].descendant

\* C12 witness: three valid observations given from the highest to the lowest;
\* the collected ancestor is the network of the last one and the collected
\* descendant the network of the first.
C12_Witness ==
  /\ pc = "collected"
  /\ Len(artifactNetworks) = 3
  /\ ValidIndices(artifactNetworks) = {1, 2, 3}
  /\ artifactNetworks[1].block.height > artifactNetworks[2].block.height
  /\ artifactNetworks[2].block.height > artifactNetworks[3].block.height
  /\ collectResult.ancestor = artifactNetworks[3].db.network
  /\ collectResult.descendant = artifactNetworks[1].db.network
  /\ collectResult.ancestor # collectResult.descendant

-----------------------------------------------------------------------------
(* C13 *)

\* C13: after a chain lookup that failed or was answered without a block the
\* search is not in an error state: it has not ended, nothing is confirmed,
\* and it is suspended on the lookup of the batch's next candidate or on its
\* next store query.
C13_FailedOrAbsentIsNoMatch ==
  (hist.lookupFailed \/ hist.absentAnswer)
    => /\ pc \in {"web3", "query"}
       /\ effect # NoEffect
       /\ relation \notin hist.ended
       /\ found[relation] = Undefined
       /\ hist.confirmation[relation] = Undefined
       /\ pc = "web3" => Len(hist.lookedUp) >= 2
       /\ pc = "query" => hist.queries >= 2

-----------------------------------------------------------------------------
(* C14 *)

\* C14: the step in which the load fails ends the run in the error state: no
\* identifiers are returned, the load is not issued again and no effect is
\* outstanding in that state or at any later point.
C14_LoadFailureSurfaces ==
  /\ [][(pc = "load" /\ hist'.loadFailed)
          => /\ pc' = "error"
             /\ effect' = NoEffect
             /\ returned' = Undefined
             /\ hist'.loads = hist.loads
             /\ hist'.inFlight = 0]_vars
  /\ [](hist.loadFailed
          => /\ pc = "error"
             /\ effect = NoEffect
             /\ returned = Undefined
             /\ hist.loads = 1
             /\ hist.inFlight = 0)
  /\ [][hist.loadFailed => UNCHANGED <<pc, effect, hist>>]_vars

\* C14 witness: the run is in the error state after the failure of a load that
\* carried two links.
C14_Witness ==
  /\ pc = "error"
  /\ hist.loadFailed
  /\ hist.loads = 1
  /\ Len(networkGenealogies) = 2
  /\ effect = NoEffect
  /\ returned = Undefined

-----------------------------------------------------------------------------
(* C15 *)

\* C15: the step in which a store query fails aborts the run: the search ends
\* neither with a confirmed candidate nor with "no relation found", and no
\* chain lookup and no load is issued in that step or at any later point.
C15_QueryFailureAborts ==
  /\ [][(pc = "query" /\ hist'.queryFailed)
          => /\ pc' = "error"
             /\ effect' = NoEffect
             /\ found' = found
             /\ hist'.ended = hist.ended
             /\ hist'.confirmation = hist.confirmation
             /\ hist'.lookups = hist.lookups
             /\ hist'.loads = hist.loads]_vars
  /\ [](hist.queryFailed
          => /\ pc = "error"
             /\ effect = NoEffect
             /\ relation \in {"ancestor", "descendant"}
             /\ relation \notin hist.ended
             /\ found[relation] = Undefined
             /\ hist.loads = 0
             /\ returned = Undefined)
  /\ [][hist.queryFailed => UNCHANGED <<pc, effect, hist>>]_vars

\* C15 witness: the second query of the descendant search failed, after the
\* ancestor search had found an ancestor; the run is in the error state and no
\* load was issued.
C15_Witness ==
  /\ pc = "error"
  /\ hist.queryFailed
  /\ relation = "descendant"
  /\ hist.queries = 2
  /\ found.ancestor # Undefined
  /\ hist.loads = 0

-----------------------------------------------------------------------------
(* C16 *)

\* C16: at every point at most one effect is handed to the driver and not yet
\* answered: exactly one while the run is suspended, none otherwise; the
\* outstanding effect is the one of the routine's current suspension point,
\* and the lookups of the nested candidate check come after the answer to the
\* store query that offered their batch, one candidate at a time in the
\* batch's order.
C16_OneEffectAtATime ==
  /\ hist.inFlight <= 1
  /\ (hist.inFlight = 1) <=> (pc \in {"query", "web3", "load"})
  /\ (effect # NoEffect) <=> (hist.inFlight = 1)
  /\ pc = "query" => (effect.type = "get" /\ hist.lookedUp = <<>>)
  /\ pc = "web3"
       => /\ hist.queries >= 1
          /\ Len(hist.batch) > 0
          /\ Len(hist.lookedUp) \in 1..Len(hist.batch)
          /\ hist.lookedUp = SubSeq(hist.batch, 1, Len(hist.lookedUp))
          /\ effect = Web3Effect(hist.lookedUp[Len(hist.lookedUp)])
  /\ pc = "load" => (effect.type = "load" /\ hist.ended = {"ancestor", "descendant"})

\* C16 witness: inside the descendant search the lookup of the first of two
\* offered candidates is the one outstanding effect; the second candidate's
\* lookup has not been issued.
C16_Witness ==
  /\ pc = "web3"
  /\ relation = "descendant"
  /\ hist.inFlight = 1
  /\ Len(hist.batch) = 2
  /\ Len(hist.lookedUp) = 1
  /\ hist.lookups = 1

-----------------------------------------------------------------------------
(* C17 *)

\* The networks of the collector's result in order: the ancestor, then the
\* descendant of every link.
ChainOf(result) ==
  <<result.ancestor>> \o
    [k \in 1..Len(result.networkGenealogies) |-> result.networkGenealogies[k].descendant]

\* C17: the collector's result holds one network for every valid observation
\* of the target chain and nothing else: observations of another chain,
\* artifacts without a networks map and observations without a block or
\* without a network contribute no link end, no collected ancestor or
\* descendant and no anchor of a store query.
C17_FilteredNeverContribute ==
  LET obs == TargetObservations
      valid == ValidIndices(obs)
      nets == ObservedNetworks(obs)
  IN pc # "start"
       => /\ (hist.collected = Undefined) <=> (valid = {})
          /\ hist.collected # Undefined
               => LET links == hist.collected.networkGenealogies
                      chain == ChainOf(hist.collected)
                  IN /\ Len(chain) = Cardinality(valid)
                     /\ Range(chain) = nets
                     /\ \A n \in nets :
                          Cardinality({k \in 1..Len(chain) : chain[k] = n})
                            = Cardinality({i \in valid : obs[i].db.network = n})
                     /\ \A k \in 1..Len(links) : links[k].ancestor = chain[k]
                     /\ hist.collected.descendant = chain[Len(chain)]
                     /\ ancestor \in nets
                     /\ descendant \in nets
                     /\ SearchRunning => network \in nets
                     /\ pc = "query" => effect.id \in {n.id : n \in nets}

\* C17 witness: the first artifact observed only another chain, the second
\* observed network 2 on the target chain; the store query is anchored at
\* network 2 and the other chain's network is nowhere in the result.
C17_Witness ==
  /\ pc = "query"
  /\ Len(artifacts) = 2
  /\ artifacts[1].networks # Undefined
  /\ artifacts[1].networks[TargetId] = Undefined
  /\ artifacts[1].networks[OtherId] = OtherEntry
  /\ ValidIndices(TargetObservations) = {2}
  /\ hist.collected.ancestor = IdObject(2)
  /\ hist.collected.descendant = IdObject(2)
  /\ hist.collected.networkGenealogies = <<>>
  /\ effect.id = 2

-----------------------------------------------------------------------------
(* C18 *)

\* The place of the i-th observation among the valid ones when they are
\* ordered by height and, at equal height, by position in the input.
StableRank(list, i) ==
  1 + Cardinality({j \in ValidIndices(list) :
                     \/ list[j].block.height < list[i].block.height
                     \/ (list[j].block.height = list[i].block.height /\ j < i)})

\* C18: the collector's result is the one fixed by its input with ties broken
\* by input order: the network of every valid observation stands in the
\* result's chain at the observation's place in the order by height and, at
\* equal height, by position in the input; the links are the adjacent pairs of
\* that chain and the collected ends are its first and last network.
C18_StableOrder ==
  LET list == artifactNetworks
      valid == ValidIndices(list)
  IN (pc = "collected" /\ valid # {})
       => /\ collectResult # Undefined
          /\ LET chain == ChainOf(collectResult)
                 links == collectResult.networkGenealogies
             IN /\ Len(chain) = Cardinality(valid)
                /\ \A i \in valid : chain[StableRank(list, i)] = list[i].db.network
                /\ \A k \in 1..Len(links) : links[k].ancestor = chain[k]
                /\ collectResult.ancestor = chain[1]
                /\ collectResult.descendant = chain[Len(chain)]

-----------------------------------------------------------------------------
(* C19 *)

\* C19: when a search ends with "no relation found", every candidate the store
\* offered during the search had its chain lookup issued and none was
\* confirmed: the search issued as many lookups as candidates were offered,
\* every batch was left only after the lookup of its last candidate, each
\* lookup being the next candidate's in the batch's order, and no candidate is
\* looked up after it was excluded.
C19_NoRelationMeansAllChecked ==
  /\ [][(SearchRunning /\ relation \notin hist.ended /\ relation \in hist'.ended
           /\ found'[relation] = Undefined)
          => /\ hist.lookups = hist.offered
             /\ hist.offered = Cardinality(hist.storeTried)
             /\ hist'.confirmation[relation] = Undefined]_vars
  /\ [][(pc = "web3" /\ pc' = "query" /\ hist'.ended = hist.ended)
          => (hist.lookedUp = hist.batch /\ hist.lookups = hist.offered)]_vars
  /\ [](pc = "web3"
          => /\ hist.lookedUp = SubSeq(hist.batch, 1, Len(hist.lookedUp))
             /\ Injective(hist.lookedUp)
             /\ IdsOf(hist.lookedUp) \cap hist.sent = {}
             /\ hist.lookups = hist.offered - (Len(hist.batch) - Len(hist.lookedUp)))

\* C19 witness: the descendant search ended with "no relation found" after two
\* batches of one candidate each and an empty third batch; two lookups were
\* issued, one per offered candidate, and none confirmed.
C19_Witness ==
  /\ pc = "load"
  /\ hist.emptyBatchOf = "descendant"
  /\ found.descendant = Undefined
  /\ hist.confirmation.descendant = Undefined
  /\ hist.queries = 3
  /\ hist.offered = 2
  /\ hist.lookups = 2
  /\ Cardinality(hist.storeTried) = 2

-----------------------------------------------------------------------------
(* C20 *)

\* C20: every store query of the ancestor search has the ancestor direction
\* and the collected ancestor as anchor, every store query of the descendant
\* search has the descendant direction and the collected descendant as anchor,
\* whatever the ancestor search found or excluded; each search's first query
\* excludes nothing, and the descendant search runs after the ancestor search
\* has returned.
C20_SearchesIndependent ==
  /\ SearchRunning
       => /\ relation \in {"ancestor", "descendant"}
          /\ network = (IF relation = "ancestor" THEN hist.collected.ancestor
                        ELSE hist.collected.descendant)
          /\ hist.ended = (IF relation = "ancestor" THEN {} ELSE {"ancestor"})
  /\ pc = "query"
       => /\ effect.type = "get"
          /\ effect.collection = "networks"
          /\ effect.query = QueryName(relation)
          /\ effect.id = (IF relation = "ancestor" THEN hist.collected.ancestor.id
                          ELSE hist.collected.descendant.id)
          /\ hist.queries = 1 => (effect.alreadyTried = {} /\ hist.offered = 0)

\* C20 witness: the first query of the descendant search, sent with nothing
\* excluded and anchored at the collected descendant, after an ancestor search
\* that found an ancestor for a different collected ancestor.
C20_Witness ==
  /\ pc = "query"
  /\ relation = "descendant"
  /\ hist.queries = 1
  /\ effect.alreadyTried = {}
  /\ found.ancestor # Undefined
  /\ hist.collected.ancestor # hist.collected.descendant
  /\ effect.id = hist.collected.descendant.id
  /\ effect.query = QueryName("descendant")

====
